---- MODULE Spec2Model ----
(***************************************************************************)
(* Agent Runtime of the Viral-AI-engine repository.                        *)
(*                                                                         *)
(*   Spec           one chat turn of send_message_and_get_response         *)
(*                  (agent/agent_api/api/routes/chat.py)                   *)
(*   SpecDiscovery  the tool discovery retry loop of                       *)
(*                  AgentManager.create_dynamic_agent_instance             *)
(*                  (agent/agent_api/core/agent_manager.py)                *)
(*                                                                         *)
(* Texts are sequences of tokens: "+=" on Python strings is \o here.       *)
(* Python's None and "" are both falsy and the code only tests truthiness  *)
(* of extracted contents, so both are the empty text <<>>.                 *)
(***************************************************************************)
EXTENDS Integers, Sequences, FiniteSets, TLC

VARIABLES
    \* ---- chat turn (chat.py) ----
    pc,                           \* position of the handler coroutine
    session_id,                   \* path parameter of the request
    session,                      \* what chat_manager.get_session returns
    agent_cached,                 \* session.agent_id is in _initialized_agents
    full_agent_response_content,  \* the accumulator
    ai_message_id,                \* id of the streamed reply, 0 before it exists
    chunk,                        \* the chunk whose loop body is being run
    n_chunks,                     \* chunks consumed from astream so far
    exc,                          \* the exception caught by "except Exception"
    store,                        \* chat_messages rows, in insertion order
    log,                          \* calls on collaborators, in call order
    response,                     \* what the caller gets
    \* ---- discovery loop (agent_manager.py) ----
    dpc,                          \* position in the retry loop
    attempt,                      \* loop variable of "for attempt in range"
    fetched_tools_list,
    get_tools_calls,              \* outcome of every mcp_client.get_tools call
    sleeps,                       \* argument of every asyncio.sleep call
    dlog,                         \* get_tools / sleep calls, in call order
    \* ---- agent cache (agent_manager.py) ----
    initialized_agents,           \* _initialized_agents, in insertion order
    clients,                      \* state of every MultiServerMCPClient created
    task,                         \* the coroutines that use the cache
    n_ops,                        \* operations started so far
    clog,                         \* registrations, shutdown_all calls and close calls, in order
    \* ---- agent assembly (agent_manager.py, create_dynamic_agent_instance) ----
    apc,                          \* position in create_dynamic_agent_instance
    allowed_tool_names_set,       \* set(agent_config.allowed_tool_names or [])
    discord_token,                \* llm_secrets.discord_bot_token
    telegram_token,               \* llm_secrets.telegram_bot_token
    telegram_api_id,              \* llm_secrets.telegram_api_id
    telegram_api_hash,            \* llm_secrets.telegram_api_hash
    agent_mcp_config,             \* names of the configured MCP servers
    available_tools_dict,         \* names of the discovered tools
    discord_bot_id,               \* result of register_discord_bot, or None
    telegram_bot_id,              \* result of register_telegram_bot, or None
    agent_tools_final,            \* the final tool list
    alog,                         \* what happened at each step, in order
    last_call,                    \* last invocation of a tool of the agent
    \* ---- startup (agent_manager.py, initialize_agents_from_config) ----
    bpc,                          \* position in initialize_agents_from_config
    agent_configs,                \* the configurations loaded from the directory
    cfg_i,                        \* index of the configuration being initialised
    db_agents,                    \* rows of the agents table
    blog,                         \* steps of the startup and their outcomes
    \* ---- system prompt (agent_manager.py 502-510) ----
    ppc,                          \* before or after the composition
    agent_persona,                \* agent_config.system
    agent_bio,                    \* agent_config.bio
    agent_knowledge,              \* agent_config.knowledge
    agent_lore,                   \* agent_config.lore
    system_prompt,                \* the composed prompt, as a sequence of pieces
    \* ---- browser pool and crawler (browser_manager.py, crawler.py) ----
    browsers,                     \* BrowserManager._browsers, the queue
    lock,                         \* value of the semaphore BrowserManager._lock
    crawl,                        \* each crawler coroutine: position and locals
    n_crawls,                     \* crawler operations called so far
    holder                        \* per browser, the calls that got it from
                                  \* get_browser and have not released it

chatVars == <<pc, session_id, session, agent_cached, full_agent_response_content,
              ai_message_id, chunk, n_chunks, exc, store, log, response>>
discVars == <<dpc, attempt, fetched_tools_list, get_tools_calls, sleeps, dlog>>
cacheVars == <<initialized_agents, clients, task, n_ops, clog>>
asmVars == <<apc, allowed_tool_names_set, discord_token, telegram_token,
             telegram_api_id, telegram_api_hash, agent_mcp_config,
             available_tools_dict, discord_bot_id, telegram_bot_id,
             agent_tools_final, alog, last_call>>
bootVars == <<bpc, agent_configs, cfg_i, db_agents, blog>>
promptVars == <<ppc, agent_persona, agent_bio, agent_knowledge, agent_lore,
                system_prompt>>
crawlVars == <<browsers, lock, crawl, n_crawls, holder>>
vars == <<chatVars, discVars, cacheVars, asmVars, bootVars, promptVars, crawlVars>>
\* What an action of one component leaves alone.
notChatVars == <<discVars, cacheVars, asmVars, bootVars, promptVars, crawlVars>>
notDiscVars == <<chatVars, cacheVars, asmVars, bootVars, promptVars, crawlVars>>
notCacheVars == <<chatVars, discVars, asmVars, bootVars, promptVars, crawlVars>>
notAsmVars == <<chatVars, discVars, cacheVars, bootVars, promptVars, crawlVars>>
\* The startup registers its agents in the cache.
notBootVars == <<chatVars, discVars, asmVars, task, n_ops, clog, promptVars,
    crawlVars>>
notPromptVars == <<chatVars, discVars, cacheVars, asmVars, bootVars, crawlVars>>
notCrawlVars == <<chatVars, discVars, cacheVars, asmVars, bootVars, promptVars>>

(***************************************************************************)
(* Bounds of the model.                                                    *)
(***************************************************************************)
MaxChunks == 3
MaxTasks == 2
MaxOps == 3
MaxConfigs == 2
\* BrowserManager(pool_size): the number of browsers of the pool.
pool_size == 2
\* Crawler operations called in all.
MaxCrawls == 3

(***************************************************************************)
(* Values.                                                                 *)
(***************************************************************************)
Sessions == {"s1", "s2"}
ResponseIds == {1, 2}
Frags == {"Hel", "lo", " world"}
NoText == <<>>
Texts == {NoText} \cup {<<f>> : f \in Frags}
UserText == <<"hi">>
FallbackText == <<"No response generated by the agent.">>
ErrorPrefix == <<"An error occurred while generating the response: ">>
Exceptions == {"executor failed", "broadcast failed"}

\* A message inside a chunk's "messages" list.
Msg(type, content) == [type |-> type, content |-> content]
\* The 'content' key of a dict: absent, a str, a dict with 'text', another dict.
Content(form, text) == [form |-> form, text |-> text]
NoContent == Content("absent", NoText)
Contents ==
    {NoContent, Content("dict_other", NoText), Content("dict_text", <<"lo">>)}
    \cup {Content("str", t) : t \in {NoText, <<"Hel">>}}
\* The 'messages' key of a dict.
Messages(present, list) == [present |-> present, list |-> list]
NoMessages == Messages(FALSE, <<>>)
MessageLists ==
    {NoMessages,
     Messages(TRUE, <<>>),
     Messages(TRUE, <<Msg("ToolMessage", <<"result">>)>>),
     Messages(TRUE, <<Msg("ToolMessage", <<"result">>), Msg("AIMessage", <<" world">>)>>),
     Messages(TRUE, <<Msg("AIMessage", NoText), Msg("AIMessage", <<"Hel">>)>>)}
\* Anything extract_ai_content may be handed.
Item(kind, content, messages) ==
    [kind |-> kind, content |-> content, messages |-> messages]
\* The value of a chunk's 'output' key.
OutputItems ==
    {Item("AIMessage", Content("str", t), NoMessages) : t \in {NoText, <<"Hel">>}}
    \cup {Item("dict", Content("str", <<"lo">>), NoMessages),
          Item("str", Content("str", <<"Hel">>), NoMessages)}
Output(present, item) == [present |-> present, item |-> item]
NoOutput == Output(FALSE, Item("none", NoContent, NoMessages))
Outputs == {NoOutput} \cup {Output(TRUE, i) : i \in OutputItems}
\* A chunk yielded by agent_executor.astream: an AIMessage or a dict.
Chunk(kind, content, messages, output) ==
    [kind |-> kind, content |-> content, messages |-> messages, output |-> output]
NoChunk == Chunk("none", NoContent, NoMessages, NoOutput)
Chunks ==
    {Chunk("AIMessage", Content("str", t), NoMessages, NoOutput) : t \in Texts}
    \cup {Chunk("dict", c, m, o) : c \in Contents, m \in MessageLists, o \in Outputs}

\* One call on a collaborator.
Event(ev, role, text, is_partial, sid, id) ==
    [ev |-> ev, role |-> role, text |-> text, is_partial |-> is_partial,
     session_id |-> sid, id |-> id]
\* One row of chat_messages.
Row(sid, role, text, is_partial) ==
    [session_id |-> sid, role |-> role, content |-> text, is_partial |-> is_partial]

(***************************************************************************)
(* Collaborators that are called by chat.py.                               *)
(***************************************************************************)
\* ChatManager.add_message(session_id, data, is_partial): one INSERT.
add_message(rows, sid, role, text, is_partial) ==
    Append(rows, Row(sid, role, text, is_partial))

(***************************************************************************)
(* chat.py: pure helpers.                                                  *)
(***************************************************************************)
Min(S) == CHOOSE x \in S : \A y \in S : x <= y

\* Mutant: the content of the first message that has one, whatever its type.
FirstAIMessageContent_AnyType(list) ==
    LET hits == {i \in 1..Len(list) : list[i].content # NoText}
    IN  IF hits = {} THEN NoText ELSE list[Min(hits)].content

\* "for msg in item['messages']: if isinstance(msg, AIMessage) and msg.content"
FirstAIMessageContent(list) ==
    LET hits == {i \in 1..Len(list) :
                    list[i].type = "AIMessage" /\ list[i].content # NoText}
    IN  IF hits = {} THEN NoText ELSE list[Min(hits)].content

extract_ai_content(item) ==
    IF item.kind = "AIMessage" /\ item.content.text # NoText
    THEN item.content.text
    ELSE IF item.kind = "dict"
    THEN IF item.content.form = "str" THEN item.content.text
         ELSE IF item.content.form = "dict_text" THEN item.content.text
         ELSE IF item.messages.present
              THEN FirstAIMessageContent(item.messages.list)
              ELSE NoText
    ELSE NoText

\* Mutant: the final output replaces whatever was accumulated.
AfterOtherChunkTypes_Overwrite(c, acc) ==
    IF c.kind = "dict" /\ c.messages.present /\ c.messages.list # <<>>
    THEN acc
    ELSE IF c.kind = "dict" /\ c.output.present
                /\ extract_ai_content(c.output.item) # NoText
    THEN extract_ai_content(c.output.item)
    ELSE acc

\* Lines 186-197: the part of the loop body after the partial broadcast.
\* The accumulator after it, given the accumulator before it.
AfterOtherChunkTypes(c, acc) ==
    IF c.kind = "dict" /\ c.messages.present /\ c.messages.list # <<>>
    THEN acc
    ELSE IF c.kind = "dict" /\ c.output.present
    THEN LET output_content == extract_ai_content(c.output.item)
         IN  IF output_content # NoText /\ acc = NoText
             THEN output_content
             ELSE acc
    ELSE acc

\* Line 209.
ErrorMessageContent(e) == ErrorPrefix \o <<e>>

\* Mutant: no default for an empty reply.
DefaultIfEmpty_Missing(acc) == acc

\* Lines 203-205.
DefaultIfEmpty(acc) == IF acc = NoText THEN FallbackText ELSE acc

(***************************************************************************)
(* chat.py: send_message_and_get_response, one action per step between     *)
(* two awaits.                                                             *)
(***************************************************************************)
InitChat ==
    /\ pc = "get_session"
    /\ session_id \in Sessions
    /\ session \in {"absent", "foreign", "own"}
    /\ agent_cached \in BOOLEAN
    /\ full_agent_response_content = NoText
    /\ ai_message_id = 0
    /\ chunk = NoChunk
    /\ n_chunks = 0
    /\ exc = "none"
    /\ store = <<>>
    /\ log = <<>>
    /\ response = "none"

\* Mutant: the owner of the session is not compared with the caller.
ValidateSession_NoOwnerCheck ==
    /\ pc = "get_session"
    /\ IF session = "absent"
       THEN /\ response' = "404"
            /\ pc' = "done"
       ELSE /\ response' = response
            /\ pc' = "add_user_message"
    /\ UNCHANGED <<session_id, session, agent_cached, full_agent_response_content,
                   ai_message_id, chunk, n_chunks, exc, store, log>>
    /\ UNCHANGED notChatVars

\* Lines 87-97.
ValidateSession ==
    /\ pc = "get_session"
    /\ IF session = "absent"
       THEN /\ response' = "404"
            /\ pc' = "done"
       ELSE IF session = "foreign"
       THEN /\ response' = "403"
            /\ pc' = "done"
       ELSE /\ response' = response
            /\ pc' = "add_user_message"
    /\ UNCHANGED <<session_id, session, agent_cached, full_agent_response_content,
                   ai_message_id, chunk, n_chunks, exc, store, log>>
    /\ UNCHANGED notChatVars

\* Mutant: the user message is not written before the agent is run.
AddUserMessage_NotPersisted ==
    /\ pc = "add_user_message"
    /\ pc' = "get_agent"
    /\ UNCHANGED <<session_id, session, agent_cached, full_agent_response_content,
                   ai_message_id, chunk, n_chunks, exc, store, log, response>>
    /\ UNCHANGED notChatVars

\* Lines 99-107.
AddUserMessage ==
    /\ pc = "add_user_message"
    /\ store' = add_message(store, session_id, "user", UserText, FALSE)
    /\ log' = Append(log, Event("add_message", "user", UserText, FALSE, session_id, 0))
    /\ pc' = "get_agent"
    /\ UNCHANGED <<session_id, session, agent_cached, full_agent_response_content,
                   ai_message_id, chunk, n_chunks, exc, response>>
    /\ UNCHANGED notChatVars

\* Lines 109-159: the cache lookup, the response id and the call of astream.
GetAgentAndStartStream ==
    /\ pc = "get_agent"
    /\ IF ~agent_cached
       THEN /\ response' = "500"
            /\ pc' = "done"
            /\ UNCHANGED <<full_agent_response_content, ai_message_id, log>>
       ELSE /\ full_agent_response_content' = NoText
            /\ ai_message_id' \in ResponseIds
            /\ log' = Append(log, Event("astream", "agent", NoText, FALSE, session_id, 0))
            /\ pc' = "astream"
            /\ UNCHANGED response
    /\ UNCHANGED <<session_id, session, agent_cached, chunk, n_chunks, exc, store>>
    /\ UNCHANGED notChatVars

\* Lines 159-165, and 186-197 for a chunk without text: the executor yields c.
ReceiveChunk(c) ==
    /\ pc = "astream"
    /\ n_chunks < MaxChunks
    /\ n_chunks' = n_chunks + 1
    /\ LET current_chunk_content == extract_ai_content(c)
       IN  /\ log' = Append(log, Event("chunk", "agent", current_chunk_content,
                                       FALSE, session_id, 0))
           /\ IF current_chunk_content # NoText
              THEN /\ full_agent_response_content' =
                          full_agent_response_content \o current_chunk_content
                   /\ chunk' = c
                   /\ pc' = "broadcast"
              ELSE /\ full_agent_response_content' =
                          AfterOtherChunkTypes(c, full_agent_response_content)
                   /\ chunk' = NoChunk
                   /\ pc' = "astream"
    /\ UNCHANGED <<session_id, session, agent_cached, ai_message_id, exc, store,
                   response>>
    /\ UNCHANGED notChatVars

\* Mutant: every partial message gets an id of its own.
BroadcastPartial_NewId ==
    /\ pc = "broadcast"
    /\ ai_message_id' \in ResponseIds
    /\ log' = Append(log, Event("llm_stream_chunk", "agent",
                                full_agent_response_content, TRUE, session_id,
                                ai_message_id'))
    /\ full_agent_response_content' =
           AfterOtherChunkTypes(chunk, full_agent_response_content)
    /\ chunk' = NoChunk
    /\ pc' = "astream"
    /\ UNCHANGED <<session_id, session, agent_cached, n_chunks, exc, store, response>>
    /\ UNCHANGED notChatVars

\* Mutant: the partial message is also saved through chat_manager.add_message.
BroadcastPartial_SavesPartial ==
    /\ pc = "broadcast"
    /\ store' = add_message(store, session_id, "agent",
                            full_agent_response_content, TRUE)
    /\ log' = log \o
          <<Event("add_message", "agent", full_agent_response_content, TRUE,
                  session_id, 0),
            Event("llm_stream_chunk", "agent", full_agent_response_content, TRUE,
                  session_id, ai_message_id)>>
    /\ full_agent_response_content' =
           AfterOtherChunkTypes(chunk, full_agent_response_content)
    /\ chunk' = NoChunk
    /\ pc' = "astream"
    /\ UNCHANGED <<session_id, session, agent_cached, ai_message_id, n_chunks, exc,
                   response>>
    /\ UNCHANGED notChatVars

\* Lines 167-197: the partial broadcast returns, the loop body ends.
BroadcastPartial ==
    /\ pc = "broadcast"
    /\ log' = Append(log, Event("llm_stream_chunk", "agent",
                                full_agent_response_content, TRUE, session_id,
                                ai_message_id))
    /\ full_agent_response_content' =
           AfterOtherChunkTypes(chunk, full_agent_response_content)
    /\ chunk' = NoChunk
    /\ pc' = "astream"
    /\ UNCHANGED <<session_id, session, agent_cached, ai_message_id, n_chunks, exc,
                   store, response>>
    /\ UNCHANGED notChatVars

\* Lines 200-205: the stream is exhausted.
StreamEnds ==
    /\ pc = "astream"
    /\ full_agent_response_content' = DefaultIfEmpty(full_agent_response_content)
    /\ pc' = "add_final_message"
    /\ UNCHANGED <<session_id, session, agent_cached, ai_message_id, chunk, n_chunks,
                   exc, store, log, response>>
    /\ UNCHANGED notChatVars

\* Line 207: an exception raised by the executor or by the broadcast is caught.
CatchException(e) ==
    /\ \/ pc = "astream" /\ e = "executor failed"
       \/ pc = "broadcast" /\ e = "broadcast failed"
    /\ exc' = e
    /\ log' = Append(log, Event("exception", "agent", <<e>>, FALSE, session_id, 0))
    /\ pc' = "add_error_message"
    /\ UNCHANGED <<session_id, session, agent_cached, full_agent_response_content,
                   ai_message_id, chunk, n_chunks, store, response>>
    /\ UNCHANGED notChatVars

\* Mutant: the error record is written but the HTTPException is not raised,
\* so the handler goes on to step 4.
AddErrorMessage_NoRaise ==
    /\ pc = "add_error_message"
    /\ store' = add_message(store, session_id, "agent", ErrorMessageContent(exc), FALSE)
    /\ log' = Append(log, Event("add_message", "agent", ErrorMessageContent(exc),
                                FALSE, session_id, 0))
    /\ pc' = "add_final_message"
    /\ UNCHANGED <<session_id, session, agent_cached, full_agent_response_content,
                   ai_message_id, chunk, n_chunks, exc, response>>
    /\ UNCHANGED notChatVars

\* Lines 208-225.
AddErrorMessage ==
    /\ pc = "add_error_message"
    /\ store' = add_message(store, session_id, "agent", ErrorMessageContent(exc), FALSE)
    /\ log' = Append(log, Event("add_message", "agent", ErrorMessageContent(exc),
                                FALSE, session_id, 0))
    /\ response' = "500"
    /\ pc' = "done"
    /\ UNCHANGED <<session_id, session, agent_cached, full_agent_response_content,
                   ai_message_id, chunk, n_chunks, exc>>
    /\ UNCHANGED notChatVars

\* Mutant: the final reply is saved with is_partial=True.
AddFinalMessage_Partial ==
    /\ pc = "add_final_message"
    /\ store' = add_message(store, session_id, "agent",
                            full_agent_response_content, TRUE)
    /\ log' = Append(log, Event("add_message", "agent", full_agent_response_content,
                                TRUE, session_id, 0))
    /\ response' = "200"
    /\ pc' = "done"
    /\ UNCHANGED <<session_id, session, agent_cached, full_agent_response_content,
                   ai_message_id, chunk, n_chunks, exc>>
    /\ UNCHANGED notChatVars

\* Lines 227-242.
AddFinalMessage ==
    /\ pc = "add_final_message"
    /\ store' = add_message(store, session_id, "agent",
                            full_agent_response_content, FALSE)
    /\ log' = Append(log, Event("add_message", "agent", full_agent_response_content,
                                FALSE, session_id, 0))
    /\ response' = "200"
    /\ pc' = "done"
    /\ UNCHANGED <<session_id, session, agent_cached, full_agent_response_content,
                   ai_message_id, chunk, n_chunks, exc>>
    /\ UNCHANGED notChatVars

\* The request task is cancelled while it is suspended in an await:
\* asyncio.CancelledError is a BaseException, "except Exception" (line 207)
\* does not catch it and it propagates out of the handler.
AwaitPoints == {"get_session", "add_user_message", "astream", "broadcast",
                "add_error_message", "add_final_message"}
Cancel ==
    /\ pc \in AwaitPoints
    /\ log' = Append(log, Event("CancelledError", "agent", <<pc>>, FALSE, session_id, 0))
    /\ response' = "cancelled"
    /\ pc' = "done"
    /\ UNCHANGED <<session_id, session, agent_cached, full_agent_response_content,
                   ai_message_id, chunk, n_chunks, exc, store>>
    /\ UNCHANGED notChatVars

NextChat ==
    \/ ValidateSession
    \/ AddUserMessage
    \/ GetAgentAndStartStream
    \/ \E c \in Chunks : ReceiveChunk(c)
    \/ BroadcastPartial
    \/ StreamEnds
    \/ \E e \in Exceptions : CatchException(e)
    \/ AddErrorMessage
    \/ AddFinalMessage
    \/ Cancel

(***************************************************************************)
(* agent_manager.py: the discovery retry loop.                             *)
(***************************************************************************)
max_attempts == 12
base_delay == 2

RECURSIVE Pow2(_)
Pow2(n) == IF n = 0 THEN 1 ELSE 2 * Pow2(n - 1)

\* Mutant: the delay is capped at a ceiling of 60.
Delay_Capped(n) ==
    IF base_delay * Pow2(n - 1) > 60 THEN 60 ELSE base_delay * Pow2(n - 1)

\* Line 412.
Delay(n) == base_delay * Pow2(n - 1)

\* What one mcp_client.get_tools call can do.
ToolLists == {<<>>, <<"web_search">>}
GetToolsOutcomes == {"raise"} \cup {"return"}

InitDiscovery ==
    /\ dpc = "get_tools"
    /\ attempt = 1
    /\ fetched_tools_list = <<>>
    /\ get_tools_calls = <<>>
    /\ sleeps = <<>>
    /\ dlog = <<>>

\* Lines 404-408: the call returns a list.
GetToolsReturns(tools) ==
    /\ dpc = "get_tools"
    /\ fetched_tools_list' = tools
    /\ get_tools_calls' = Append(get_tools_calls, "return")
    /\ dlog' = Append(dlog, "get_tools")
    /\ IF tools # <<>>
       THEN /\ dpc' = "discovered"
            /\ attempt' = attempt
       ELSE IF attempt < max_attempts
       THEN /\ dpc' = "get_tools"
            /\ attempt' = attempt + 1
       ELSE /\ dpc' = "discovered"
            /\ attempt' = attempt
    /\ UNCHANGED sleeps
    /\ UNCHANGED notDiscVars

\* Mutant: "attempt <= max_attempts" where the code has "<": it waits after
\* the last attempt and tries once more.
GetToolsRaises_OffByOne ==
    /\ dpc = "get_tools"
    /\ get_tools_calls' = Append(get_tools_calls, "raise")
    /\ dlog' = Append(dlog, "get_tools")
    /\ IF attempt <= max_attempts
       THEN /\ dpc' = "sleep"
            /\ UNCHANGED fetched_tools_list
       ELSE /\ fetched_tools_list' = <<>>
            /\ dpc' = "discovered"
    /\ UNCHANGED <<attempt, sleeps>>
    /\ UNCHANGED notDiscVars

\* Lines 409-418: the call raises.
GetToolsRaises ==
    /\ dpc = "get_tools"
    /\ get_tools_calls' = Append(get_tools_calls, "raise")
    /\ dlog' = Append(dlog, "get_tools")
    /\ IF attempt < max_attempts
       THEN /\ dpc' = "sleep"
            /\ UNCHANGED fetched_tools_list
       ELSE /\ fetched_tools_list' = <<>>
            /\ dpc' = "discovered"
    /\ UNCHANGED <<attempt, sleeps>>
    /\ UNCHANGED notDiscVars

\* Line 414: asyncio.sleep(delay) returns, the loop goes on.
Sleep ==
    /\ dpc = "sleep"
    /\ sleeps' = Append(sleeps, Delay(attempt))
    /\ dlog' = Append(dlog, "sleep")
    /\ attempt' = attempt + 1
    /\ dpc' = "get_tools"
    /\ UNCHANGED <<fetched_tools_list, get_tools_calls>>
    /\ UNCHANGED notDiscVars

NextDiscovery ==
    \/ \E tools \in ToolLists : GetToolsReturns(tools)
    \/ GetToolsRaises
    \/ Sleep

(***************************************************************************)
(* agent_manager.py: the agent cache and the coroutines that change it.    *)
(* _initialized_agents is a dict: a sequence of entries with distinct ids, *)
(* in insertion order. A client is named by its index in clients.          *)
(***************************************************************************)
AgentIds == {"a1", "a2"}
Tasks == 1..MaxTasks

Entry(id, c) == [agent_id |-> id, mcp_client |-> c]
CachedIds(cache) == {cache[i].agent_id : i \in 1..Len(cache)}
IndexOf(cache, id) == CHOOSE i \in 1..Len(cache) : cache[i].agent_id = id
\* self._initialized_agents.get(agent_id)
get_initialized_agent(cache, id) ==
    IF id \in CachedIds(cache) THEN cache[IndexOf(cache, id)].mcp_client ELSE 0
\* self._initialized_agents[agent_id] = agent_info
DictSet(cache, id, c) ==
    IF id \in CachedIds(cache)
    THEN [cache EXCEPT ![IndexOf(cache, id)] = Entry(id, c)]
    ELSE Append(cache, Entry(id, c))
\* self._initialized_agents.pop(agent_id, None): the dict afterwards.
DictPop(cache, id) == SelectSeq(cache, LAMBDA e : e.agent_id # id)

IdleTask == [op |-> "none", pc |-> "idle", agent_id |-> "none", mcp_client |-> 0,
             items |-> <<>>]
CanStart(t) == task[t].pc \in {"idle", "returned", "raised"} /\ n_ops < MaxOps
\* One entry of clog: a registration ("add") or a close call ("close") with
\* its client, or a call of shutdown_specific_agent or shutdown_all_agents
\* ("shutdown_specific", "shutdown_all") with its task.
CEvent(ev, x) == [ev |-> ev, x |-> x]
\* The close call, if any, of a step of a task that ends in the record tk.
CloseCall(tk) ==
    IF tk.pc = "close" THEN <<CEvent("close", tk.mcp_client)>> ELSE <<>>

InitCache ==
    /\ initialized_agents = <<>>
    /\ clients = <<>>
    /\ task = [t \in Tasks |-> IdleTask]
    /\ n_ops = 0
    /\ clog = <<>>

\* Lines 296-396: create_dynamic_agent_instance is called for agent id; it
\* runs without an await up to the creation of its MultiServerMCPClient.
StartAssembly(t, id) ==
    /\ CanStart(t)
    /\ n_ops' = n_ops + 1
    /\ clients' = Append(clients, "open")
    /\ task' = [task EXCEPT ![t] = [op |-> "assemble", pc |-> "assembling",
                                    agent_id |-> id, mcp_client |-> Len(clients) + 1,
                                    items |-> <<>>]]
    /\ UNCHANGED <<initialized_agents, clog>>
    /\ UNCHANGED notCacheVars

\* Lines 188-203 (called at 276-284): the assembled agent is put in the cache.
AddInitializedAgent(t) ==
    /\ task[t].pc = "assembling"
    /\ initialized_agents' =
           DictSet(initialized_agents, task[t].agent_id, task[t].mcp_client)
    /\ task' = [task EXCEPT ![t].pc = "returned"]
    /\ clog' = Append(clog, CEvent("add", task[t].mcp_client))
    /\ UNCHANGED <<clients, n_ops>>
    /\ UNCHANGED notCacheVars

\* Lines 228-239 up to the await: shutdown_specific_agent(id) run by a task
\* whose record is tk; the task and the cache afterwards.
PopAndClose(tk, cache, id) ==
    IF id \in CachedIds(cache)
    THEN [tk EXCEPT !.pc = "close", !.agent_id = id,
                    !.mcp_client = get_initialized_agent(cache, id)]
    ELSE [tk EXCEPT !.pc = "not_found", !.agent_id = id, !.mcp_client = 0]

\* Lines 216-218: the loop of shutdown_all_agents runs on, without an await,
\* until a shutdown_specific_agent waits for a close or the items are done.
\* Mutant: the loop returns after its first shutdown_specific_agent.
RunLoop_FirstOnly(tk, cache) ==
    IF tk.items = <<>> \/ tk.pc = "close"
    THEN [tk EXCEPT !.pc = "returned"]
    ELSE PopAndClose([tk EXCEPT !.items = Tail(tk.items)], cache, Head(tk.items))

RECURSIVE RunLoop(_, _)
RunLoop(tk, cache) ==
    IF tk.items = <<>>
    THEN [tk EXCEPT !.pc = "returned"]
    ELSE LET id == Head(tk.items)
             next == [tk EXCEPT !.items = Tail(tk.items)]
         IN  IF id \in CachedIds(cache)
             THEN PopAndClose(next, cache, id)
             ELSE RunLoop(next, cache)

\* Mutant: the entry is read with get, not popped.
CacheAfter_NoPop(tk, cache) == cache

\* The cache after the step of a task that ends in the record tk.
CacheAfter(tk, cache) ==
    IF tk.pc = "close" THEN DictPop(cache, tk.agent_id) ELSE cache

\* Lines 228-239: shutdown_specific_agent(id) is called on its own.
ShutdownSpecificAgent(t, id) ==
    /\ CanStart(t)
    /\ n_ops' = n_ops + 1
    /\ LET tk == PopAndClose([IdleTask EXCEPT !.op = "shutdown_specific"],
                             initialized_agents, id)
       IN  /\ task' = [task EXCEPT ![t] =
                          IF tk.pc = "not_found" THEN [tk EXCEPT !.pc = "returned"]
                          ELSE tk]
           /\ initialized_agents' = CacheAfter(tk, initialized_agents)
           /\ clog' = Append(clog, CEvent("shutdown_specific", t)) \o CloseCall(tk)
    /\ UNCHANGED clients
    /\ UNCHANGED notCacheVars

\* Lines 213-217: shutdown_all_agents is called; list(items()) is taken.
ShutdownAllAgents(t) ==
    /\ CanStart(t)
    /\ n_ops' = n_ops + 1
    /\ LET tk == RunLoop([IdleTask EXCEPT
                             !.op = "shutdown_all",
                             !.items = [i \in 1..Len(initialized_agents) |->
                                           initialized_agents[i].agent_id]],
                         initialized_agents)
       IN  /\ task' = [task EXCEPT ![t] = tk]
           /\ initialized_agents' = CacheAfter(tk, initialized_agents)
           /\ clog' = Append(clog, CEvent("shutdown_all", t)) \o CloseCall(tk)
    /\ UNCHANGED clients
    /\ UNCHANGED notCacheVars

\* Lines 234-237: "await mcp_client.close()" returns.
CloseReturns(t) ==
    /\ task[t].pc = "close"
    /\ clients' = [clients EXCEPT ![task[t].mcp_client] = "closed"]
    /\ LET tk == IF task[t].op = "shutdown_all"
                 THEN RunLoop(task[t], initialized_agents)
                 ELSE [task[t] EXCEPT !.pc = "returned"]
       IN  /\ task' = [task EXCEPT ![t] = tk]
           /\ initialized_agents' = CacheAfter(tk, initialized_agents)
           /\ clog' = clog \o CloseCall(tk)
    /\ UNCHANGED n_ops
    /\ UNCHANGED notCacheVars

\* Line 234: "await mcp_client.close()" raises; nothing catches it, neither in
\* shutdown_specific_agent nor in the loop of shutdown_all_agents.
CloseRaises(t) ==
    /\ task[t].pc = "close"
    /\ task' = [task EXCEPT ![t].pc = "raised"]
    /\ UNCHANGED <<initialized_agents, clients, n_ops, clog>>
    /\ UNCHANGED notCacheVars

\* Line 234: the close never completes; the await has no timeout.
CloseHangs(t) ==
    /\ task[t].pc = "close"
    /\ task' = [task EXCEPT ![t].pc = "close_never_completes"]
    /\ UNCHANGED <<initialized_agents, clients, n_ops, clog>>
    /\ UNCHANGED notCacheVars

NextCache ==
    \/ \E t \in Tasks, id \in AgentIds : StartAssembly(t, id)
    \/ \E t \in Tasks : AddInitializedAgent(t)
    \/ \E t \in Tasks, id \in AgentIds : ShutdownSpecificAgent(t, id)
    \/ \E t \in Tasks : ShutdownAllAgents(t)
    \/ \E t \in Tasks : CloseReturns(t)
    \/ \E t \in Tasks : CloseRaises(t)
    \/ \E t \in Tasks : CloseHangs(t)


(***************************************************************************)
(* agent_manager.py: create_dynamic_agent_instance, from the secrets of    *)
(* the agent to the returned executor, and the tool wrappers.              *)
(* A Python value is a record of its type and its text, so that None, the  *)
(* string "12345" and the integer 12345 are three values.                  *)
(***************************************************************************)
NoneV == [type |-> "none", v |-> "None"]
StrV(s) == [type |-> "str", v |-> s]
IntV(s) == [type |-> "int", v |-> s]
\* bool(x) for None and strings.
Truthy(x) == x.type # "none" /\ x.v # ""
NumericTexts == {"12345"}
\* int(x): the integer, or the exception it raises.
ToInt(x) ==
    CASE x.type = "int" -> x
      [] x.type = "str" /\ x.v \in NumericTexts -> IntV(x.v)
      [] x.type = "str" -> [type |-> "raise", v |-> "ValueError"]
      [] OTHER -> [type |-> "raise", v |-> "TypeError"]

FixedServers == {"web_search", "finance", "rag", "crawler"}
\* The tools each MCP server offers.
ServerTools(server) ==
    CASE server = "web_search" -> {"web_search"}
      [] server = "discord" -> {"register_discord_bot", "send_message_discord"}
      [] server = "telegram" -> {"register_telegram_bot", "send_message_telegram"}
      [] OTHER -> {}
ToolsOf(servers) == UNION {ServerTools(x) : x \in servers}
TelegramToolNames ==
    {"send_message_telegram", "get_chat_history_telegram", "get_bot_id_telegram"}
DiscordToolNames ==
    {"send_message_discord", "get_channel_messages_discord", "get_bot_id_discord"}

AllowLists ==
    { {},
      {"web_search", "not_discovered"},
      {"send_message_discord", "send_message_telegram"},
      {"web_search", "send_message_discord", "send_message_telegram"} }
DiscordTokens == {NoneV, StrV("discord-token")}
TelegramTokens == {NoneV, StrV("telegram-token")}
TelegramApiIds == {NoneV, StrV("12345"), StrV("not-a-number")}
TelegramApiHashes == {NoneV, StrV("api-hash")}

discord_secrets_provided == Truthy(discord_token)
telegram_secrets_provided ==
    Truthy(telegram_token) /\ telegram_api_id.type # "none" /\ Truthy(telegram_api_hash)

\* A tool as discovered: its name and its description.
Description(name) ==
    CASE name = "web_search" -> "Search the web"
      [] name = "send_message_discord" -> "Send a message to a Discord channel"
      [] name = "send_message_telegram" -> "Send a message to a Telegram chat"
      [] name = "register_discord_bot" -> "Register a Discord bot"
      [] name = "register_telegram_bot" -> "Register a Telegram bot"
      [] OTHER -> "none"
MCPTool(name) == [name |-> name, description |-> Description(name)]
NoBound == [k \in {} |-> NoneV]

\* A tool appended as it was discovered.
Unwrapped(tool) ==
    [cls |-> "StructuredTool", name |-> tool.name, description |-> tool.description,
     wrapped_tool |-> tool, bound |-> NoBound]

\* Mutant: the wrapper describes itself with its class docstring.
TelegramToolWrapper_OwnDescription(tool, api_id, api_hash, bot_token) ==
    [cls |-> "TelegramToolWrapper", name |-> tool.name,
     description |-> "A wrapper for Telegram tools",
     wrapped_tool |-> tool,
     bound |-> [telegram_api_id |-> api_id, telegram_api_hash |-> api_hash,
                telegram_bot_token |-> bot_token]]

\* Lines 108-121: TelegramToolWrapper.__init__
TelegramToolWrapper(tool, api_id, api_hash, bot_token) ==
    [cls |-> "TelegramToolWrapper", name |-> tool.name,
     description |-> tool.description,
     wrapped_tool |-> tool,
     bound |-> [telegram_api_id |-> api_id, telegram_api_hash |-> api_hash,
                telegram_bot_token |-> bot_token]]

\* Lines 144-155: DiscordToolWrapper.__init__
DiscordToolWrapper(tool, bot_id) ==
    [cls |-> "DiscordToolWrapper", name |-> tool.name,
     description |-> tool.description,
     wrapped_tool |-> tool,
     bound |-> [bot_id |-> bot_id]]

\* Mutant: the bound values are defaults that the caller's arguments override.
InjectedKwargs_CallerWins(tool, kwargs) ==
    [k \in (DOMAIN kwargs) \cup (DOMAIN tool.bound) |->
        IF k \in DOMAIN kwargs THEN kwargs[k] ELSE tool.bound[k]]

\* Lines 123-130 and 157-163: all_kwargs = {**kwargs}, then one assignment
\* per bound field.
InjectedKwargs(tool, kwargs) ==
    [k \in (DOMAIN kwargs) \cup (DOMAIN tool.bound) |->
        IF k \in DOMAIN tool.bound THEN tool.bound[k] ELSE kwargs[k]]

AStep(step, outcome) == [step |-> step, outcome |-> outcome]
NoCall == [cls |-> "none", name |-> "none", kwargs |-> NoBound, args |-> NoBound]

\* Lines 305-334: the inputs of one assembly.
InitAssembly ==
    /\ apc = "create_llm"
    /\ allowed_tool_names_set \in AllowLists
    /\ discord_token \in DiscordTokens
    /\ telegram_token \in TelegramTokens
    /\ telegram_api_id \in TelegramApiIds
    /\ telegram_api_hash \in TelegramApiHashes
    /\ agent_mcp_config = {}
    /\ available_tools_dict = {}
    /\ discord_bot_id = NoneV
    /\ telegram_bot_id = NoneV
    /\ agent_tools_final = <<>>
    /\ alog = <<>>
    /\ last_call = NoCall

asmInputs == <<allowed_tool_names_set, discord_token, telegram_token,
               telegram_api_id, telegram_api_hash>>

\* Mutant: a Telegram bot token alone adds the Telegram server.
CreateLLM_TelegramByToken ==
    /\ apc = "create_llm"
    /\ agent_mcp_config' =
           FixedServers
               \cup (IF discord_secrets_provided THEN {"discord"} ELSE {})
               \cup (IF Truthy(telegram_token) THEN {"telegram"} ELSE {})
    /\ alog' = Append(alog, AStep("create_llm", "ok"))
    /\ apc' = "get_tools"
    /\ UNCHANGED <<asmInputs, available_tools_dict, discord_bot_id, telegram_bot_id,
                   agent_tools_final, last_call>>
    /\ UNCHANGED notAsmVars

\* Lines 336-396: create_llm returns; the MCP servers are configured and the
\* MultiServerMCPClient is created.
CreateLLM ==
    /\ apc = "create_llm"
    /\ agent_mcp_config' =
           FixedServers
               \cup (IF discord_secrets_provided THEN {"discord"} ELSE {})
               \cup (IF telegram_secrets_provided THEN {"telegram"} ELSE {})
    /\ alog' = Append(alog, AStep("create_llm", "ok"))
    /\ apc' = "get_tools"
    /\ UNCHANGED <<asmInputs, available_tools_dict, discord_bot_id, telegram_bot_id,
                   agent_tools_final, last_call>>
    /\ UNCHANGED notAsmVars

\* Lines 336-347: create_llm raises ValueError, which is re-raised.
CreateLLMRaises ==
    /\ apc = "create_llm"
    /\ alog' = Append(alog, AStep("create_llm", "raise"))
    /\ apc' = "raised"
    /\ UNCHANGED <<asmInputs, agent_mcp_config, available_tools_dict, discord_bot_id,
                   telegram_bot_id, agent_tools_final, last_call>>
    /\ UNCHANGED notAsmVars

\* Lines 398-421: the retry loop ends with a list of tools, empty when every
\* attempt failed; the dict of the tools by name is built.
Discover(names) ==
    /\ apc = "get_tools"
    /\ names \subseteq ToolsOf(agent_mcp_config)
    /\ available_tools_dict' = names
    /\ alog' = Append(alog, AStep("get_tools", IF names = {} THEN "empty" ELSE "ok"))
    /\ apc' = "register_discord_bot"
    /\ UNCHANGED <<asmInputs, agent_mcp_config, discord_bot_id, telegram_bot_id,
                   agent_tools_final, last_call>>
    /\ UNCHANGED notAsmVars

RegisterOutcomes == {"ok", "raise"}

\* Mutant: an exception of register_discord_bot is not caught.
RegisterDiscordBot_Propagates(outcome) ==
    /\ apc = "register_discord_bot"
    /\ IF discord_secrets_provided /\ "register_discord_bot" \in available_tools_dict
       THEN /\ discord_bot_id' = IF outcome = "ok" THEN StrV("discord-bot-1") ELSE NoneV
            /\ alog' = Append(alog, AStep("register_discord_bot", outcome))
            /\ apc' = IF outcome = "ok" THEN "register_telegram_bot" ELSE "raised"
       ELSE /\ outcome = "ok"
            /\ discord_bot_id' = discord_bot_id
            /\ alog' = Append(alog, AStep("register_discord_bot",
                                 IF discord_secrets_provided THEN "tool_not_found"
                                 ELSE "not_called"))
            /\ apc' = "register_telegram_bot"
    /\ UNCHANGED <<asmInputs, agent_mcp_config, available_tools_dict, telegram_bot_id,
                   agent_tools_final, last_call>>
    /\ UNCHANGED notAsmVars

\* Lines 425-435: the Discord bot is registered when there is a token and
\* the register tool was discovered; an exception sets discord_bot_id to None.
RegisterDiscordBot(outcome) ==
    /\ apc = "register_discord_bot"
    /\ IF discord_secrets_provided /\ "register_discord_bot" \in available_tools_dict
       THEN /\ discord_bot_id' = IF outcome = "ok" THEN StrV("discord-bot-1") ELSE NoneV
            /\ alog' = Append(alog, AStep("register_discord_bot", outcome))
       ELSE /\ outcome = "ok"
            /\ discord_bot_id' = discord_bot_id
            /\ alog' = Append(alog, AStep("register_discord_bot",
                                 IF discord_secrets_provided THEN "tool_not_found"
                                 ELSE "not_called"))
    /\ apc' = "register_telegram_bot"
    /\ UNCHANGED <<asmInputs, agent_mcp_config, available_tools_dict, telegram_bot_id,
                   agent_tools_final, last_call>>
    /\ UNCHANGED notAsmVars

\* Mutant: register_telegram_bot is invoked without looking it up among the
\* discovered tools.
RegisterTelegramBot_Undiscovered(outcome) ==
    /\ apc = "register_telegram_bot"
    /\ IF telegram_secrets_provided
       THEN /\ telegram_bot_id' = IF outcome = "ok" THEN StrV("telegram-bot-1") ELSE NoneV
            /\ alog' = Append(alog, AStep("register_telegram_bot", outcome))
       ELSE /\ outcome = "ok"
            /\ telegram_bot_id' = telegram_bot_id
            /\ alog' = Append(alog, AStep("register_telegram_bot", "not_called"))
    /\ apc' = "filter"
    /\ UNCHANGED <<asmInputs, agent_mcp_config, available_tools_dict, discord_bot_id,
                   agent_tools_final, last_call>>
    /\ UNCHANGED notAsmVars

\* Lines 437-451: the same for Telegram.
RegisterTelegramBot(outcome) ==
    /\ apc = "register_telegram_bot"
    /\ IF telegram_secrets_provided /\ "register_telegram_bot" \in available_tools_dict
       THEN /\ telegram_bot_id' = IF outcome = "ok" THEN StrV("telegram-bot-1") ELSE NoneV
            /\ alog' = Append(alog, AStep("register_telegram_bot", outcome))
       ELSE /\ outcome = "ok"
            /\ telegram_bot_id' = telegram_bot_id
            /\ alog' = Append(alog, AStep("register_telegram_bot",
                                 IF telegram_secrets_provided THEN "tool_not_found"
                                 ELSE "not_called"))
    /\ apc' = "filter"
    /\ UNCHANGED <<asmInputs, agent_mcp_config, available_tools_dict, discord_bot_id,
                   agent_tools_final, last_call>>
    /\ UNCHANGED notAsmVars

\* Lines 456-493: what one pass of the loop appends for tool_name.
FilterOne(tool_name) ==
    IF tool_name \notin available_tools_dict
    THEN <<>>
    ELSE LET tool_item == MCPTool(tool_name)
             is_telegram_tool == tool_name \in TelegramToolNames
             is_discord_tool == tool_name \in DiscordToolNames
         IN  IF is_telegram_tool /\ telegram_secrets_provided
             THEN IF ToInt(telegram_api_id).type = "raise"
                  THEN <<>>
                  ELSE <<TelegramToolWrapper(tool_item, ToInt(telegram_api_id),
                                             telegram_api_hash, telegram_token)>>
             ELSE IF is_discord_tool /\ Truthy(discord_bot_id)
                  THEN <<DiscordToolWrapper(tool_item, discord_bot_id)>>
                  ELSE <<Unwrapped(tool_item)>>

\* Lines 455-495: the loop over the allowed names, taken in the order given.
RECURSIVE FilterAll(_)
FilterAll(order) ==
    IF order = <<>> THEN <<>>
    ELSE FilterOne(Head(order)) \o FilterAll(Tail(order))

\* The orders in which a set can be iterated.
Orders(S) ==
    {o \in [1..Cardinality(S) -> S] : \A i, j \in 1..Cardinality(S) : o[i] = o[j] => i = j}

\* Lines 453-498: the filter loop, in some iteration order of the set.
FilterTools(order) ==
    /\ apc = "filter"
    /\ order \in Orders(allowed_tool_names_set)
    /\ agent_tools_final' = FilterAll(order)
    /\ alog' = Append(alog, AStep("filter", "ok"))
    /\ apc' = "create_custom_tool_agent"
    /\ UNCHANGED <<asmInputs, agent_mcp_config, available_tools_dict, discord_bot_id,
                   telegram_bot_id, last_call>>
    /\ UNCHANGED notAsmVars

\* Lines 500-518: the executor is built and the assembly returns, or
\* create_custom_tool_agent raises.
CreateExecutor(outcome) ==
    /\ apc = "create_custom_tool_agent"
    /\ alog' = Append(alog, AStep("create_custom_tool_agent", outcome))
    /\ apc' = IF outcome = "ok" THEN "returned" ELSE "raised"
    /\ UNCHANGED <<asmInputs, agent_mcp_config, available_tools_dict, discord_bot_id,
                   telegram_bot_id, agent_tools_final, last_call>>
    /\ UNCHANGED notAsmVars

\* The arguments a caller (the LLM) may pass to a tool.
CallerKwargs ==
    { [chat_id |-> StrV("c1")],
      [chat_id |-> StrV("c1"), bot_id |-> StrV("other-bot"),
       telegram_bot_token |-> StrV("other-token")],
      [message |-> StrV("hi"), telegram_api_id |-> IntV("999"),
       telegram_api_hash |-> StrV("other-hash")] }

\* Lines 123-130, 157-163: the agent invokes tool i of its final list; a
\* wrapper hands the injected arguments to the tool it wraps.
InvokeTool(i, kwargs) ==
    /\ apc = "returned"
    /\ i \in 1..Len(agent_tools_final)
    /\ last_call' = [cls |-> agent_tools_final[i].cls,
                     name |-> agent_tools_final[i].wrapped_tool.name,
                     kwargs |-> kwargs,
                     args |-> InjectedKwargs(agent_tools_final[i], kwargs)]
    /\ UNCHANGED <<apc, asmInputs, agent_mcp_config, available_tools_dict,
                   discord_bot_id, telegram_bot_id, agent_tools_final, alog>>
    /\ UNCHANGED notAsmVars

NextAssembly ==
    \/ CreateLLM
    \/ CreateLLMRaises
    \/ \E names \in SUBSET ToolsOf(FixedServers \cup {"discord", "telegram"}) :
           Discover(names)
    \/ \E outcome \in RegisterOutcomes : RegisterDiscordBot(outcome)
    \/ \E outcome \in RegisterOutcomes : RegisterTelegramBot(outcome)
    \/ \E order \in UNION {Orders(S) : S \in AllowLists} : FilterTools(order)
    \/ \E outcome \in RegisterOutcomes : CreateExecutor(outcome)
    \/ \E i \in 1..Len(agent_tools_final), kwargs \in CallerKwargs : InvokeTool(i, kwargs)


(***************************************************************************)
(* agent_manager.py: initialize_agents_from_config, the startup loop that  *)
(* assembles every configured agent, stores its configuration and puts it  *)
(* in the cache.                                                           *)
(***************************************************************************)
AgentNames == {"alpha", "beta"}
\* Line 75: every loaded configuration gets a fresh uuid4.
FreshId(i) == <<"uuid4", i>>
\* An id given to a row by an earlier run.
StoredId(name) == <<"stored", name>>
AgentConfigOf(i, name) == [id |-> FreshId(i), name |-> name]
AgentRow(id, name) == [id |-> id, name |-> name]
ConfigLists ==
    UNION {{[i \in 1..n |-> AgentConfigOf(i, f[i])] : f \in [1..n -> AgentNames]} :
               n \in 0..MaxConfigs}
\* The agents table before the startup: empty, or rows of an earlier run.
StoredTables ==
    {{AgentRow(StoredId(name), name) : name \in S} : S \in SUBSET AgentNames}

\* agent_repository.py 152-205: the table after upsert_agent_config(config).
\* A row with the same name keeps its id (ON CONFLICT (name) DO UPDATE does
\* not set id); otherwise the row is inserted under config.id.
upsert_agent_config(rows, config) ==
    IF \E r \in rows : r.name = config.name
    THEN rows
    ELSE rows \cup {AgentRow(config.id, config.name)}

BStep(i, step, outcome) == [cfg |-> i, step |-> step, outcome |-> outcome]
Outcomes == {"ok", "raise"}

InitBoot ==
    /\ bpc = "load"
    /\ agent_configs \in ConfigLists
    /\ cfg_i = 0
    /\ db_agents \in StoredTables
    /\ blog = <<>>

\* Lines 249-261: the configurations are loaded; none means return.
LoadConfigs ==
    /\ bpc = "load"
    /\ bpc' = IF agent_configs = <<>> THEN "returned" ELSE "create_llm"
    /\ cfg_i' = IF agent_configs = <<>> THEN 0 ELSE 1
    /\ UNCHANGED <<agent_configs, db_agents, blog, initialized_agents, clients>>
    /\ UNCHANGED notBootVars

\* Mutant: the client is created before the model handle.
BootCreateLLM_ClientFirst(outcome) ==
    /\ bpc = "create_llm"
    /\ blog' = Append(blog, BStep(cfg_i, "create_llm", outcome))
    /\ clients' = Append(clients, "open")
    /\ bpc' = IF outcome = "ok" THEN "assembling" ELSE "raised"
    /\ UNCHANGED <<agent_configs, cfg_i, db_agents, initialized_agents>>
    /\ UNCHANGED notBootVars

\* Lines 265-266, 305-396: create_dynamic_agent_instance runs without an
\* await up to the MultiServerMCPClient; create_llm raising ends the startup.
BootCreateLLM(outcome) ==
    /\ bpc = "create_llm"
    /\ blog' = Append(blog, BStep(cfg_i, "create_llm", outcome))
    /\ IF outcome = "ok"
       THEN /\ clients' = Append(clients, "open")
            /\ bpc' = "assembling"
       ELSE /\ clients' = clients
            /\ bpc' = "raised"
    /\ UNCHANGED <<agent_configs, cfg_i, db_agents, initialized_agents>>
    /\ UNCHANGED notBootVars

\* Lines 398-518: discovery, registrations and filter cannot raise; the
\* executor is built, or create_custom_tool_agent raises.
BootAssemble(outcome) ==
    /\ bpc = "assembling"
    /\ blog' = Append(blog, BStep(cfg_i, "create_custom_tool_agent", outcome))
    /\ bpc' = IF outcome = "ok" THEN "upsert" ELSE "raised"
    /\ UNCHANGED <<agent_configs, cfg_i, db_agents, initialized_agents, clients>>
    /\ UNCHANGED notBootVars

\* Lines 268-284: the configuration is upserted and the agent is put in the
\* cache under agent_config.id; the loop goes on with the next configuration.
\* An exception of the upsert ends the startup (285-294).
BootUpsertAndAdd(outcome) ==
    /\ bpc = "upsert"
    /\ blog' = Append(blog, BStep(cfg_i, "upsert_agent_config", outcome))
    /\ IF outcome = "ok"
       THEN /\ db_agents' = upsert_agent_config(db_agents, agent_configs[cfg_i])
            /\ initialized_agents' =
                   DictSet(initialized_agents, agent_configs[cfg_i].id, Len(clients))
            /\ cfg_i' = IF cfg_i < Len(agent_configs) THEN cfg_i + 1 ELSE cfg_i
            /\ bpc' = IF cfg_i < Len(agent_configs) THEN "create_llm" ELSE "returned"
       ELSE /\ bpc' = "raised"
            /\ UNCHANGED <<db_agents, initialized_agents, cfg_i>>
    /\ UNCHANGED <<agent_configs, clients>>
    /\ UNCHANGED notBootVars

NextBoot ==
    \/ LoadConfigs
    \/ \E outcome \in Outcomes : BootCreateLLM(outcome)
    \/ \E outcome \in Outcomes : BootAssemble(outcome)
    \/ \E outcome \in Outcomes : BootUpsertAndAdd(outcome)


(***************************************************************************)
(* agent_manager.py 502-510: the system prompt. A prompt is the sequence   *)
(* of the pieces of text that are concatenated.                            *)
(***************************************************************************)
ListV(lines) == [type |-> "list", v |-> lines]
NoList == [type |-> "none", v |-> <<>>]
Personas == {NoneV, StrV(""), StrV("You are a pirate")}
Bios == {NoList, ListV(<<>>), ListV(<<"bio 1">>), ListV(<<"bio 1", "bio 2">>)}
Knowledges == {NoList, ListV(<<>>), ListV(<<"fact 1">>)}
Lores == {NoList, ListV(<<>>), ListV(<<"lore 1", "lore 2">>)}
AGENT_SYSTEM_PROMPT == <<"AGENT_SYSTEM_PROMPT">>

\* '\n'.join(lines)
RECURSIVE JoinLines(_)
JoinLines(lines) ==
    IF Len(lines) <= 1 THEN lines
    ELSE <<Head(lines), "\n">> \o JoinLines(Tail(lines))

\* bool(x) for None and lists.
TruthyList(x) == x.type # "none" /\ x.v # <<>>

\* Mutant: a block that is empty is added as an empty section.
WithBlock_IfNotNone(prompt, present, header, text) ==
    IF present \/ text = <<>> \/ text = <<"">> THEN prompt \o <<header>> \o text
    ELSE prompt

\* Lines 503-510: one "if block: system_prompt = f'{system_prompt}...'".
WithBlock(prompt, present, header, text) ==
    IF present THEN prompt \o <<header>> \o text ELSE prompt

InitPrompt ==
    /\ ppc = "compose"
    /\ agent_persona \in Personas
    /\ agent_bio \in Bios
    /\ agent_knowledge \in Knowledges
    /\ agent_lore \in Lores
    /\ system_prompt = <<>>

\* Lines 502-510.
ComposePrompt ==
    /\ ppc = "compose"
    /\ system_prompt' =
           LET p1 == WithBlock(AGENT_SYSTEM_PROMPT, Truthy(agent_persona),
                               "\n\nYour persona: ", <<agent_persona.v>>)
               p2 == WithBlock(p1, TruthyList(agent_bio),
                               "\n\nYour bio: ", JoinLines(agent_bio.v))
               p3 == WithBlock(p2, TruthyList(agent_knowledge),
                               "\n\nKnowledge: ", JoinLines(agent_knowledge.v))
           IN  WithBlock(p3, TruthyList(agent_lore),
                         "\n\nLore: ", JoinLines(agent_lore.v))
    /\ ppc' = "composed"
    /\ UNCHANGED <<agent_persona, agent_bio, agent_knowledge, agent_lore>>
    /\ UNCHANGED notPromptVars

NextPrompt == ComposePrompt


(***************************************************************************)
(* The browser pool and the crawler operations                             *)
(* (browser_manager.py, crawler.py).  Every operation of ProductionCrawler *)
(* has the same frame: get_browser, then in a try new_context, new_page    *)
(* and the work on the page, and in the finally page.close, context.close  *)
(* and release_browser.                                                    *)
(***************************************************************************)
\* The coroutines that run crawler operations, one operation at a time each.
Crawlers == 1..3
Browsers == 1..pool_size

\* asyncio.Queue.get and put on the unbounded queue _browsers.
QueueAfterGet_Peek(q) == q
QueueAfterGet(q) == Tail(q)
QueueAfterPut(q, b) == Append(q, b)

NoCrawl == [pc |-> "idle", id |-> 0, browser |-> 0, exc |-> FALSE]
CStep(c, position) == crawl' = [crawl EXCEPT ![c].pc = position]
CallOutcomes == {"return", "raise"}

\* BrowserManager.initialize has run: pool_size browsers are queued and the
\* semaphore, created with pool_size permits, is untouched.
InitCrawler ==
    /\ browsers = [i \in 1..pool_size |-> i]
    /\ lock = pool_size
    /\ crawl = [c \in Crawlers |-> NoCrawl]
    /\ n_crawls = 0
    /\ holder = [b \in Browsers |-> {}]

\* crawler.py 39-40: an operation is called and calls get_browser.
StartCrawl(c) ==
    /\ crawl[c].pc \in {"idle", "returned", "raised"}
    /\ n_crawls < MaxCrawls
    /\ n_crawls' = n_crawls + 1
    /\ crawl' = [crawl EXCEPT ![c] = [pc |-> "lock_acquire", id |-> n_crawls + 1,
                                      browser |-> 0, exc |-> FALSE]]
    /\ UNCHANGED <<browsers, lock, holder>>
    /\ UNCHANGED notCrawlVars

\* browser_manager.py 28: "await self._lock.acquire()" gets a permit.
LockAcquire(c) ==
    /\ crawl[c].pc = "lock_acquire"
    /\ lock > 0
    /\ lock' = lock - 1
    /\ CStep(c, "browsers_get")
    /\ UNCHANGED <<browsers, n_crawls, holder>>
    /\ UNCHANGED notCrawlVars

\* browser_manager.py 29: "return await self._browsers.get()" gets a browser.
BrowsersGet(c) ==
    /\ crawl[c].pc = "browsers_get"
    /\ browsers # <<>>
    /\ browsers' = QueueAfterGet(browsers)
    /\ crawl' = [crawl EXCEPT ![c].pc = "new_context", ![c].browser = Head(browsers)]
    /\ holder' = [holder EXCEPT ![Head(browsers)] = @ \cup {crawl[c].id}]
    /\ UNCHANGED <<lock, n_crawls>>
    /\ UNCHANGED notCrawlVars

\* crawler.py 42: browser.new_context() returns or raises.  When it raises
\* neither context nor page is bound, and "await page.close()" in the
\* finally (72) raises UnboundLocalError, which ends the operation.
NewContext(c, outcome) ==
    /\ crawl[c].pc = "new_context"
    /\ CStep(c, IF outcome = "return" THEN "new_page" ELSE "raised")
    /\ UNCHANGED <<browsers, lock, n_crawls, holder>>
    /\ UNCHANGED notCrawlVars

\* crawler.py 43: context.new_page() returns or raises.  When it raises page
\* is not bound, and "await page.close()" in the finally (72) raises
\* UnboundLocalError, which ends the operation.
NewPage(c, outcome) ==
    /\ crawl[c].pc = "new_page"
    /\ CStep(c, IF outcome = "return" THEN "work" ELSE "raised")
    /\ UNCHANGED <<browsers, lock, n_crawls, holder>>
    /\ UNCHANGED notCrawlVars

\* crawler.py 48-69, 182: the work on the page returns or raises; either way
\* the finally is entered, with the exception pending when it raised.
Work(c, outcome) ==
    /\ crawl[c].pc = "work"
    /\ crawl' = [crawl EXCEPT ![c].pc = "page_close", ![c].exc = (outcome = "raise")]
    /\ UNCHANGED <<browsers, lock, n_crawls, holder>>
    /\ UNCHANGED notCrawlVars

\* crawler.py 72: "await page.close()" returns or raises.
PageClose(c, outcome) ==
    /\ crawl[c].pc = "page_close"
    /\ CStep(c, IF outcome = "return" THEN "context_close" ELSE "raised")
    /\ UNCHANGED <<browsers, lock, n_crawls, holder>>
    /\ UNCHANGED notCrawlVars

\* crawler.py 73: "await context.close()" returns or raises.
ContextClose(c, outcome) ==
    /\ crawl[c].pc = "context_close"
    /\ CStep(c, IF outcome = "return" THEN "release_browser" ELSE "raised")
    /\ UNCHANGED <<browsers, lock, n_crawls, holder>>
    /\ UNCHANGED notCrawlVars

\* crawler.py 74, browser_manager.py 31-34: release_browser puts the browser
\* back and releases the permit; the operation then returns, or raises the
\* exception of its work.
ReleaseBrowser(c) ==
    /\ crawl[c].pc = "release_browser"
    /\ browsers' = QueueAfterPut(browsers, crawl[c].browser)
    /\ lock' = lock + 1
    /\ holder' = [holder EXCEPT ![crawl[c].browser] = @ \ {crawl[c].id}]
    /\ CStep(c, IF crawl[c].exc THEN "raised" ELSE "returned")
    /\ UNCHANGED n_crawls
    /\ UNCHANGED notCrawlVars

NextCrawler ==
    \/ \E c \in Crawlers : StartCrawl(c)
    \/ \E c \in Crawlers : LockAcquire(c)
    \/ \E c \in Crawlers : BrowsersGet(c)
    \/ \E c \in Crawlers, outcome \in CallOutcomes : NewContext(c, outcome)
    \/ \E c \in Crawlers, outcome \in CallOutcomes : NewPage(c, outcome)
    \/ \E c \in Crawlers, outcome \in CallOutcomes : Work(c, outcome)
    \/ \E c \in Crawlers, outcome \in CallOutcomes : PageClose(c, outcome)
    \/ \E c \in Crawlers, outcome \in CallOutcomes : ContextClose(c, outcome)
    \/ \E c \in Crawlers : ReleaseBrowser(c)


(***************************************************************************)
(* Specifications: one per component, the other component is not running.  *)
(***************************************************************************)
IdleChat ==
    /\ pc = "idle"
    /\ session_id = "s1"
    /\ session = "absent"
    /\ agent_cached = FALSE
    /\ full_agent_response_content = NoText
    /\ ai_message_id = 0
    /\ chunk = NoChunk
    /\ n_chunks = 0
    /\ exc = "none"
    /\ store = <<>>
    /\ log = <<>>
    /\ response = "none"

IdleDiscovery ==
    /\ dpc = "idle"
    /\ attempt = 0
    /\ fetched_tools_list = <<>>
    /\ get_tools_calls = <<>>
    /\ sleeps = <<>>
    /\ dlog = <<>>

\* An empty cache that nobody uses.
IdleCache ==
    /\ initialized_agents = <<>>
    /\ clients = <<>>
    /\ task = [t \in Tasks |-> [IdleTask EXCEPT !.pc = "off"]]
    /\ n_ops = 0
    /\ clog = <<>>

\* No assembly in progress.
IdleAssembly ==
    /\ apc = "idle"
    /\ allowed_tool_names_set = {}
    /\ discord_token = NoneV
    /\ telegram_token = NoneV
    /\ telegram_api_id = NoneV
    /\ telegram_api_hash = NoneV
    /\ agent_mcp_config = {}
    /\ available_tools_dict = {}
    /\ discord_bot_id = NoneV
    /\ telegram_bot_id = NoneV
    /\ agent_tools_final = <<>>
    /\ alog = <<>>
    /\ last_call = NoCall

\* No startup in progress.
IdleBoot ==
    /\ bpc = "idle"
    /\ agent_configs = <<>>
    /\ cfg_i = 0
    /\ db_agents = {}
    /\ blog = <<>>

\* No prompt being composed.
IdlePrompt ==
    /\ ppc = "idle"
    /\ agent_persona = NoneV
    /\ agent_bio = NoList
    /\ agent_knowledge = NoList
    /\ agent_lore = NoList
    /\ system_prompt = <<>>

\* BrowserManager.__init__ (browser_manager.py 11-16): nothing is queued yet.
IdleCrawler ==
    /\ browsers = <<>>
    /\ lock = pool_size
    /\ crawl = [c \in Crawlers |-> NoCrawl]
    /\ n_crawls = 0
    /\ holder = [b \in Browsers |-> {}]

Init ==
    InitChat /\ IdleDiscovery /\ IdleCache /\ IdleAssembly /\ IdleBoot /\ IdlePrompt
        /\ IdleCrawler
Next == NextChat
Spec == Init /\ [][Next]_vars

InitDisc ==
    InitDiscovery /\ IdleChat /\ IdleCache /\ IdleAssembly /\ IdleBoot /\ IdlePrompt
        /\ IdleCrawler
SpecDiscovery == InitDisc /\ [][NextDiscovery]_vars

InitCacheSpec ==
    InitCache /\ IdleChat /\ IdleDiscovery /\ IdleAssembly /\ IdleBoot /\ IdlePrompt
        /\ IdleCrawler
SpecCache == InitCacheSpec /\ [][NextCache]_vars

InitAsm ==
    InitAssembly /\ IdleChat /\ IdleDiscovery /\ IdleCache /\ IdleBoot /\ IdlePrompt
        /\ IdleCrawler
SpecAssembly == InitAsm /\ [][NextAssembly]_vars

InitBootSpec ==
    InitBoot /\ IdleChat /\ IdleDiscovery /\ IdleCache /\ IdleAssembly /\ IdlePrompt
        /\ IdleCrawler
SpecBoot == InitBootSpec /\ [][NextBoot]_vars

InitPromptSpec ==
    InitPrompt /\ IdleChat /\ IdleDiscovery /\ IdleCache /\ IdleAssembly /\ IdleBoot
        /\ IdleCrawler
SpecPrompt == InitPromptSpec /\ [][NextPrompt]_vars

InitCrawlerSpec ==
    InitCrawler /\ IdleChat /\ IdleDiscovery /\ IdleCache /\ IdleAssembly /\ IdleBoot
        /\ IdlePrompt
SpecCrawler == InitCrawlerSpec /\ [][NextCrawler]_vars

(***************************************************************************)
(* Properties of the chat turn.                                            *)
(***************************************************************************)
Last(s) == s[Len(s)]
AgentRows == SelectSeq(store, LAMBDA r : r.role = "agent")
UserRows == SelectSeq(store, LAMBDA r : r.role = "user")
Partials == SelectSeq(log, LAMBDA e : e.ev = "llm_stream_chunk")
TextFragments == SelectSeq(log, LAMBDA e : e.ev = "chunk" /\ e.text # NoText)
LastPartialText == IF Partials = <<>> THEN NoText ELSE Last(Partials).text
\* The text of the latest partial broadcast before position k of the log.
PartialTextBefore(k) ==
    LET before == {i \in 1..(k - 1) : log[i].ev = "llm_stream_chunk"}
    IN  IF before = {} THEN NoText
        ELSE log[CHOOSE i \in before : \A j \in before : j <= i].text
RECURSIVE ConcatTexts(_)
ConcatTexts(events) ==
    IF events = <<>> THEN NoText
    ELSE events[1].text \o ConcatTexts(Tail(events))
AgentSaves == {i \in 1..Len(log) : log[i].ev = "add_message" /\ log[i].role = "agent"}

\* C1: once an exception raised during the consumption of the stream has been
\* caught, no partial broadcast follows it, the only agent row the turn ever
\* writes is the non-partial error message, never the normal reply, and a turn
\* that runs to its end (it is not cancelled) has written exactly that one row
\* and answers with an error.
C1_ErroredTurnPersistsOneErrorRecord ==
    exc # "none" =>
        /\ \A i, j \in 1..Len(log) :
               (log[i].ev = "exception" /\ i < j) => log[j].ev # "llm_stream_chunk"
        /\ Len(AgentRows) <= 1
        /\ \A i \in 1..Len(AgentRows) :
               AgentRows[i] = Row(session_id, "agent", ErrorMessageContent(exc), FALSE)
        /\ pc \in {"add_error_message", "done"}
        /\ (pc = "done" /\ response # "cancelled") =>
               (Len(AgentRows) = 1 /\ response = "500")

\* The executor raised after a partial broadcast; the turn has ended.
C1_Witness ==
    /\ exc = "executor failed"
    /\ response = "500"
    /\ Len(Partials) >= 1
    /\ Len(AgentRows) = 1

\* C2: while the stream is consumed no agent row is written; a turn whose
\* stream ended without an exception has written exactly one agent row, it is
\* non-partial, and the call that wrote it comes after every partial broadcast.
C2_OneFinalCommitAfterLastPartial ==
    /\ pc \in {"astream", "broadcast", "add_final_message"} => Len(AgentRows) = 0
    /\ response = "200" =>
           /\ Len(AgentRows) = 1
           /\ ~AgentRows[1].is_partial
           /\ Cardinality(AgentSaves) = 1
           /\ \A k \in AgentSaves : \A i \in 1..Len(log) :
                  log[i].ev = "llm_stream_chunk" => i < k

C2_Witness ==
    /\ response = "200"
    /\ Len(Partials) >= 2
    /\ Len(AgentRows) = 1

\* C3 (as claimed): a finished turn whose user message was persisted has, as
\* the last row of the session, a non-partial agent message.
C3_AsClaimed ==
    (pc = "done" /\ Len(UserRows) > 0) =>
        /\ Last(store).role = "agent"
        /\ ~Last(store).is_partial
        /\ Last(store).session_id = session_id

\* C4 (as claimed): when the request is cancelled while the handler waits for
\* the next fragment or for a partial broadcast, a non-partial agent record is
\* still written for the turn.
C4_AsClaimed ==
    \A i \in 1..Len(log) :
        (log[i].ev = "CancelledError" /\ log[i].text \in {<<"astream">>, <<"broadcast">>})
            => \E j \in AgentSaves : j > i /\ ~log[j].is_partial

\* C5 (as claimed): every partial broadcast directly follows the receipt of a
\* non-empty text fragment and carries the text of the previous partial
\* broadcast (the empty text before the first) extended by that fragment; a
\* turn that received text fragments and ended normally commits their
\* concatenation in order.
C5_AsClaimed ==
    /\ \A k \in 1..Len(log) :
           log[k].ev = "llm_stream_chunk" =>
               /\ k > 1
               /\ log[k - 1].ev = "chunk"
               /\ log[k - 1].text # NoText
               /\ log[k].text = PartialTextBefore(k) \o log[k - 1].text
    /\ (response = "200" /\ TextFragments # <<>>) =>
           Last(store).content = ConcatTexts(TextFragments)

\* C6 (as claimed): whenever the handler is about to consume the next fragment
\* (or to see the end of the stream), every change of the accumulator has been
\* republished: the accumulator is the text of the last partial broadcast,
\* which carries the turn's response identifier.
C6_AsClaimed ==
    pc = "astream" =>
        /\ full_agent_response_content = LastPartialText
        /\ Partials # <<>> => Last(Partials).id = ai_message_id

\* C7: the executor's stream is started, a chunk is received and a partial is
\* broadcast only after the user message has been written, as the first row.
C7_UserMessageFirst ==
    (\/ pc \in {"astream", "broadcast", "add_final_message", "add_error_message"}
     \/ \E k \in 1..Len(log) : log[k].ev \in {"astream", "chunk", "llm_stream_chunk"})
        => /\ Len(store) >= 1
           /\ store[1] = Row(session_id, "user", UserText, FALSE)
           /\ log[1] = Event("add_message", "user", UserText, FALSE, session_id, 0)

C7_Witness ==
    /\ Len(Partials) >= 1
    /\ Len(UserRows) = 1

\* C8: no agent row has empty text; when the stream ends with an empty
\* accumulator the fallback phrase takes its place, and the final commit
\* writes the accumulator as it then is.
C8_EmptyReplyFallback ==
    /\ [](\A i \in 1..Len(AgentRows) : AgentRows[i].content # NoText)
    /\ [][(pc = "astream" /\ pc' = "add_final_message"
              /\ full_agent_response_content = NoText)
             => full_agent_response_content' = FallbackText]_vars
    /\ [][(pc = "add_final_message" /\ response' = "200")
             => Last(store').content = full_agent_response_content]_vars

\* A stream that ended with nothing accumulated was committed as the fallback.
C8_Witness ==
    /\ response = "200"
    /\ TextFragments = <<>>
    /\ Last(store).content = FallbackText

\* C9: a step either leaves the stored rows alone or appends one non-partial
\* row to them; a partial broadcast leaves them alone.
C9_StoreAppendOnlyNonPartial ==
    [][/\ \/ store' = store
          \/ /\ Len(store') = Len(store) + 1
             /\ SubSeq(store', 1, Len(store)) = store
             /\ ~Last(store').is_partial
             /\ Last(log').ev = "add_message"
       /\ (Len(log') > Len(log) /\ Last(log').is_partial) => store' = store]_vars

C9_Witness ==
    /\ Len(store) = 2
    /\ Len(Partials) >= 2
    /\ \A i \in 1..Len(store) : ~store[i].is_partial

(***************************************************************************)
(* Properties of the discovery loop.                                       *)
(***************************************************************************)
AllRaised == \A i \in 1..Len(get_tools_calls) : get_tools_calls[i] = "raise"

\* C10: the loop never calls get_tools more than max_attempts = 12 times; when
\* every call raised, the loop ends after exactly 12 calls, in its normal exit
\* with an empty list, after 11 waits, the last call not followed by a wait.
C10_DiscoveryGivesUpAfterTwelve ==
    /\ Len(get_tools_calls) <= max_attempts
    /\ dpc \in {"idle", "get_tools", "sleep", "discovered"}
    /\ (AllRaised /\ Len(get_tools_calls) = max_attempts) =>
           /\ dpc = "discovered"
           /\ fetched_tools_list = <<>>
           /\ Len(sleeps) = max_attempts - 1
           /\ Last(dlog) = "get_tools"
    /\ (AllRaised /\ dpc = "discovered") => Len(get_tools_calls) = 12

C10_Witness ==
    /\ dpc = "discovered"
    /\ AllRaised
    /\ Len(get_tools_calls) = 12
    /\ fetched_tools_list = <<>>

\* The number of get_tools calls among the first k entries of dlog.
CallsUpTo(k) == Cardinality({i \in 1..k : dlog[i] = "get_tools"})
SleepsUpTo(k) == Cardinality({i \in 1..k : dlog[i] = "sleep"})

\* C11: every wait directly follows a get_tools call that raised, the n-th
\* call with n < 12, and lasts 2 * 2^(n-1); when every call raised, the first
\* wait is 2 and each wait is twice the one before, with no ceiling.
C11_BackoffDoubles ==
    /\ \A k \in 1..Len(dlog) :
           dlog[k] = "sleep" =>
               LET n == CallsUpTo(k) IN
               /\ k > 1 /\ dlog[k - 1] = "get_tools"
               /\ get_tools_calls[n] = "raise"
               /\ n < 12
               /\ sleeps[SleepsUpTo(k)] = 2 * 2 ^ (n - 1)
    /\ Len(sleeps) = SleepsUpTo(Len(dlog))
    /\ AllRaised =>
           /\ Len(sleeps) >= 1 => sleeps[1] = 2
           /\ \A i \in 1..(Len(sleeps) - 1) : sleeps[i + 1] = 2 * sleeps[i]

\* Eleven failures in a row: the last wait is 2 * 2^10.
C11_Witness ==
    /\ AllRaised
    /\ Len(sleeps) = 11
    /\ sleeps[11] = 2048
    /\ sleeps[2] = 4


(***************************************************************************)
(* Claims about the agent cache.                                           *)
(***************************************************************************)
IsOpen(c) == c # 0 /\ clients[c] = "open"

\* C13: a step that replaces the entry of an id whose client is open leaves
\* that old client closed (a rejected registration replaces nothing).
C13_AsClaimed ==
    [][\A i \in 1..Len(initialized_agents) :
           LET e == initialized_agents[i] IN
           (/\ IsOpen(e.mcp_client)
            /\ e.agent_id \in CachedIds(initialized_agents')
            /\ get_initialized_agent(initialized_agents', e.agent_id) # e.mcp_client)
               => clients'[e.mcp_client] = "closed"]_vars

\* C14: when two assemblies for the same id have both completed and the id
\* is cached, the client of the assembly that did not win is closed.
C14_AsClaimed ==
    \A t1, t2 \in Tasks :
        (/\ t1 # t2
         /\ task[t1].op = "assemble" /\ task[t1].pc = "returned"
         /\ task[t2].op = "assemble" /\ task[t2].pc = "returned"
         /\ task[t1].agent_id = task[t2].agent_id
         /\ task[t1].agent_id \in CachedIds(initialized_agents)
         /\ get_initialized_agent(initialized_agents, task[t1].agent_id)
                = task[t1].mcp_client)
            => ~IsOpen(task[t2].mcp_client)


\* A shutdown_specific_agent call of task t that found its id.
ReturnedFound(t) ==
    /\ task[t].op = "shutdown_specific"
    /\ task[t].pc = "returned"
    /\ task[t].mcp_client # 0

C16_AsClaimed ==
    \A t \in Tasks :
        (task[t].op = "shutdown_all" /\ task[t].pc \in {"returned", "raised"}) =>
            \A k \in 1..Len(task[t].items) :
                ~(/\ task[t].items[k] \in CachedIds(initialized_agents)
                  /\ IsOpen(get_initialized_agent(initialized_agents,
                                                  task[t].items[k])))

\* A step of the cache operations taken by task t.
TaskSteps(t) == NextCache /\ task'[t] # task[t]

\* C17: a task whose close never completes can still take a step (log the
\* timeout and return), so that shutdown_all_agents can go on.
C17_AsClaimed ==
    \A t \in Tasks :
        task[t].pc = "close_never_completes" => ENABLED TaskSteps(t)


(***************************************************************************)
(* Claims about the assembly of an agent.                                  *)
(***************************************************************************)
HasStep(step, outcome) ==
    \E k \in 1..Len(alog) : alog[k] = AStep(step, outcome)
FinalNames == {agent_tools_final[i].name : i \in 1..Len(agent_tools_final)}

\* C12: an assembly raises only from create_llm or from the construction of
\* the executor; a discovery that found nothing, a registration that raised
\* or was not possible and allowed names that were skipped lead on to the
\* executor, and the assembly that builds it returns with tools taken from
\* the allowed and discovered names.
C12_OnlyLLMAndExecutorAbort ==
    /\ apc = "raised" =>
           /\ alog[Len(alog)].outcome = "raise"
           /\ alog[Len(alog)].step \in {"create_llm", "create_custom_tool_agent"}
    /\ HasStep("create_custom_tool_agent", "ok") => apc = "returned"
    /\ (HasStep("create_llm", "ok") /\ apc # "raised") =>
           \A k \in 1..Len(alog) : alog[k].outcome # "raise"
                                   \/ alog[k].step \in {"register_discord_bot",
                                                        "register_telegram_bot"}
    /\ apc = "returned" =>
           FinalNames \subseteq (allowed_tool_names_set \cap available_tools_dict)

C12_Witness ==
    /\ apc = "returned"
    /\ HasStep("register_discord_bot", "raise")
    /\ HasStep("register_telegram_bot", "raise")
    /\ telegram_api_id = StrV("not-a-number")
    /\ "send_message_telegram" \in allowed_tool_names_set \cap available_tools_dict
    /\ "send_message_telegram" \notin FinalNames


TelegramInjectedKeys == {"telegram_api_id", "telegram_api_hash", "telegram_bot_token"}
DiscordInjectedKeys == {"bot_id"}
\* The arguments of last_call outside keys are the caller's, unchanged.
OthersUnchanged(keys) ==
    /\ DOMAIN last_call.args = (DOMAIN last_call.kwargs) \cup keys
    /\ \A k \in (DOMAIN last_call.kwargs) \ keys :
           last_call.args[k] = last_call.kwargs[k]

\* C18: the arguments a wrapper hands to the tool it wraps carry the
\* agent's own value under every injected key (the three Telegram
\* credentials, or the Discord bot id), whatever the caller passed under
\* that key, and the caller's other arguments as they were.
C18_InjectedKeysOverride ==
    /\ last_call.cls = "TelegramToolWrapper" =>
           /\ last_call.args["telegram_api_id"] = ToInt(telegram_api_id)
           /\ last_call.args["telegram_api_hash"] = telegram_api_hash
           /\ last_call.args["telegram_bot_token"] = telegram_token
           /\ OthersUnchanged(TelegramInjectedKeys)
    /\ last_call.cls = "DiscordToolWrapper" =>
           /\ last_call.args["bot_id"] = discord_bot_id
           /\ OthersUnchanged(DiscordInjectedKeys)

C18_Witness ==
    /\ last_call.cls = "TelegramToolWrapper"
    /\ "telegram_api_hash" \in DOMAIN last_call.kwargs
    /\ "message" \in DOMAIN last_call.kwargs
    /\ last_call.kwargs["telegram_api_hash"] # telegram_api_hash
    /\ last_call.args["telegram_api_hash"] = StrV("api-hash")
    /\ last_call.args["telegram_api_id"] = IntV("12345")

\* C19: every tool of the final list has the name and the description of
\* the discovered tool it stands for, so the (name, description) pairs of
\* the final list are those of the unwrapped tools.
C19_WrapperKeepsNameAndDescription ==
    /\ \A i \in 1..Len(agent_tools_final) :
           /\ agent_tools_final[i].name = agent_tools_final[i].wrapped_tool.name
           /\ agent_tools_final[i].description
                  = agent_tools_final[i].wrapped_tool.description
    /\ {<<agent_tools_final[i].name, agent_tools_final[i].description>> :
            i \in 1..Len(agent_tools_final)}
           = {<<MCPTool(n).name, MCPTool(n).description>> : n \in FinalNames}

C19_Witness ==
    /\ apc = "returned"
    /\ \E i, j \in 1..Len(agent_tools_final) :
           /\ agent_tools_final[i].cls = "TelegramToolWrapper"
           /\ agent_tools_final[i].description = "Send a message to a Telegram chat"
           /\ agent_tools_final[j].cls = "DiscordToolWrapper"
           /\ agent_tools_final[j].description = "Send a message to a Discord channel"

PlatformTools(names) == {agent_tools_final[i].name : i \in 1..Len(agent_tools_final)} \cap names

\* C20: when the registration call of a platform raised, the final list
\* holds no tool of that platform, wrapped or not.
C20_AsClaimed ==
    apc = "returned" =>
        /\ HasStep("register_discord_bot", "raise") => PlatformTools(DiscordToolNames) = {}
        /\ HasStep("register_telegram_bot", "raise") => PlatformTools(TelegramToolNames) = {}


\* The values among the arguments handed to the wrapped tool by last_call.
PassedValues == {last_call.args[k] : k \in DOMAIN last_call.args}

\* C21: the bot id that the registration call of a platform returned is
\* among the arguments its wrapper hands to the wrapped tool.
C21_AsClaimed ==
    /\ last_call.cls = "DiscordToolWrapper" => discord_bot_id \in PassedValues
    /\ (last_call.cls = "TelegramToolWrapper"
            /\ HasStep("register_telegram_bot", "ok")) =>
           telegram_bot_id \in PassedValues


\* C22: after the filter loop the names of the final list are exactly the
\* allowed names that were discovered, each once, and an empty allow-list
\* gives an empty list.
C22_AsClaimed ==
    HasStep("filter", "ok") =>
        /\ FinalNames = allowed_tool_names_set \cap available_tools_dict
        /\ Len(agent_tools_final) = Cardinality(FinalNames)
        /\ allowed_tool_names_set = {} => agent_tools_final = <<>>


(***************************************************************************)
(* Claims about the startup.                                               *)
(***************************************************************************)
ClientsCreated == Len(clients)
LLMsCreated ==
    Cardinality({k \in 1..Len(blog) : blog[k] = BStep(blog[k].cfg, "create_llm", "ok")})

\* C23: when create_llm raises for a configuration, the startup ends with
\* that exception: no client was created for the configuration (there are
\* as many clients as model handles), no executor was built for it and its
\* id is not in the cache.
C23_LLMFailureIsFatalAndEarly ==
    \A k \in 1..Len(blog) :
        (blog[k].step = "create_llm" /\ blog[k].outcome = "raise") =>
            /\ k = Len(blog)
            /\ bpc = "raised"
            /\ ClientsCreated = LLMsCreated
            /\ \A j \in 1..Len(blog) :
                   blog[j].cfg = blog[k].cfg => blog[j].step = "create_llm"
            /\ agent_configs[blog[k].cfg].id \notin CachedIds(initialized_agents)

C23_Witness ==
    /\ bpc = "raised"
    /\ Len(blog) > 0
    /\ blog[Len(blog)] = BStep(2, "create_llm", "raise")
    /\ Len(clients) = 1
    /\ CachedIds(initialized_agents) = {FreshId(1)}


\* C24: when the startup has ended with the fatal error of one agent, every
\* other configured agent is registered in the cache.
C24_AsClaimed ==
    bpc = "raised" =>
        \A i \in 1..Len(agent_configs) :
            i # cfg_i => agent_configs[i].id \in CachedIds(initialized_agents)

\* C27: after the startup has returned, every configured agent is cached
\* under the id of the row that stores its configuration, so that the agent
\* id of a stored row finds a live agent.
C27_AsClaimed ==
    bpc = "returned" =>
        \A i \in 1..Len(agent_configs) :
            \E r \in db_agents :
                /\ r.name = agent_configs[i].name
                /\ get_initialized_agent(initialized_agents, r.id) # 0

\* C28: when the startup has ended, every client that was created is in the
\* cache or closed.
C28_AsClaimed ==
    bpc \in {"returned", "raised"} =>
        \A c \in 1..Len(clients) :
            \/ clients[c] = "closed"
            \/ \E k \in 1..Len(initialized_agents) : initialized_agents[k].mcp_client = c


(***************************************************************************)
(* Further claims about a chat turn.                                       *)
(***************************************************************************)
ChunksConsumed == SelectSeq(log, LAMBDA e : e.ev = "chunk")

\* C29: the response identifier exists before the first fragment is
\* consumed, every partial broadcast of the turn carries it, and once
\* generated it never changes.
C29_OneResponseId ==
    /\ [](/\ ChunksConsumed # <<>> => ai_message_id \in ResponseIds
          /\ \A i \in 1..Len(Partials) : Partials[i].id = ai_message_id)
    /\ [][(ai_message_id \in ResponseIds) => (ai_message_id' = ai_message_id)]_vars

C29_Witness ==
    /\ Len(Partials) >= 2
    /\ Partials[1].id = Partials[2].id
    /\ Partials[1].id \in ResponseIds
    /\ Partials[1].text # Partials[2].text


\* The response text of the final output that chunk c carries, if any.
OutputText(c) ==
    IF c.kind = "dict" /\ c.output.present
    THEN extract_ai_content(c.output.item)
    ELSE NoText

\* C30: a step that consumes a chunk whose final output contains text, the
\* chunk yielding no text of its own, sets the accumulator to that text
\* when the accumulator is empty and leaves it alone otherwise; the rest of
\* the loop body after a partial broadcast never changes a non-empty
\* accumulator.
C30_AsClaimed ==
    [][/\ \A c \in Chunks :
              (/\ ReceiveChunk(c)
               /\ extract_ai_content(c) = NoText
               /\ OutputText(c) # NoText) =>
                  full_agent_response_content' =
                      IF full_agent_response_content = NoText
                      THEN OutputText(c)
                      ELSE full_agent_response_content
       /\ (BroadcastPartial /\ full_agent_response_content # NoText) =>
              full_agent_response_content' = full_agent_response_content]_vars


(***************************************************************************)
(* Further claims about the assembly of an agent.                          *)
(***************************************************************************)
\* C25: the configured servers are the four fixed ones, plus the Discord
\* server exactly when there is a Discord bot token, plus the Telegram
\* server exactly when bot token, api id and api hash are all there.
C25_EndpointSet ==
    HasStep("create_llm", "ok") =>
        /\ {"web_search", "finance", "rag", "crawler"} \subseteq agent_mcp_config
        /\ agent_mcp_config \subseteq
               {"web_search", "finance", "rag", "crawler", "discord", "telegram"}
        /\ "discord" \in agent_mcp_config <=> discord_token # NoneV
        /\ "telegram" \in agent_mcp_config <=>
               (telegram_token # NoneV /\ telegram_api_id # NoneV
                    /\ telegram_api_hash # NoneV)

C25_Witness ==
    /\ HasStep("create_llm", "ok")
    /\ telegram_token # NoneV
    /\ telegram_api_hash = NoneV
    /\ discord_token # NoneV
    /\ agent_mcp_config = {"web_search", "finance", "rag", "crawler", "discord"}


(***************************************************************************)
(* Claims about the system prompt.                                         *)
(***************************************************************************)
\* The four optional blocks in the order of the claim: header, and content
\* (no content when the block is absent or empty).
PromptBlocks ==
    <<[header |-> "\n\nYour persona: ",
       content |-> IF agent_persona \in {NoneV, StrV("")} THEN <<>>
                   ELSE <<agent_persona.v>>],
      [header |-> "\n\nYour bio: ", content |-> JoinLines(agent_bio.v)],
      [header |-> "\n\nKnowledge: ", content |-> JoinLines(agent_knowledge.v)],
      [header |-> "\n\nLore: ", content |-> JoinLines(agent_lore.v)]>>
HeaderAt(b) == {k \in 1..Len(system_prompt) : system_prompt[k] = PromptBlocks[b].header}
RECURSIVE LenOfBlocks(_)
LenOfBlocks(b) ==
    IF b = 0 THEN 0
    ELSE LenOfBlocks(b - 1)
             + (IF PromptBlocks[b].content = <<>> THEN 0
                ELSE 1 + Len(PromptBlocks[b].content))

\* C26: the composed prompt starts with the base block; a block with
\* content appears once, as its header directly followed by its content,
\* after the blocks that precede it in the order persona, bio, knowledge,
\* lore; a block that is absent or empty leaves no header and no text.
C26_PromptComposition ==
    ppc = "composed" =>
        /\ system_prompt[1] = "AGENT_SYSTEM_PROMPT"
        /\ Len(system_prompt) = 1 + LenOfBlocks(4)
        /\ \A b \in 1..4 :
               IF PromptBlocks[b].content = <<>>
               THEN HeaderAt(b) = {}
               ELSE /\ HeaderAt(b) = {2 + LenOfBlocks(b - 1)}
                    /\ SubSeq(system_prompt, 3 + LenOfBlocks(b - 1), 1 + LenOfBlocks(b))
                           = PromptBlocks[b].content

C26_Witness ==
    /\ ppc = "composed"
    /\ agent_persona = StrV("")
    /\ agent_bio = ListV(<<"bio 1", "bio 2">>)
    /\ agent_knowledge = ListV(<<>>)
    /\ agent_lore = ListV(<<"lore 1", "lore 2">>)
    /\ system_prompt = <<"AGENT_SYSTEM_PROMPT", "\n\nYour bio: ", "bio 1", "\n", "bio 2",
                         "\n\nLore: ", "lore 1", "\n", "lore 2">>


(***************************************************************************)
(* Claims about the order of the steps of an assembly.                     *)
(***************************************************************************)
\* The positions in alog at which the register tool named step was invoked.
Invocations(step) ==
    {k \in 1..Len(alog) : alog[k].step = step /\ alog[k].outcome \in {"ok", "raise"}}
FilterAt == {k \in 1..Len(alog) : alog[k].step = "filter"}
WrappedBy(cls) ==
    {i \in 1..Len(agent_tools_final) : agent_tools_final[i].cls = cls}

\* C31: within one assembly each register tool is invoked at most once, only
\* with the complete secrets of its platform and only when it was
\* discovered, and before the filter loop that builds the wrappers.
C31_RegistrationOnceAndFirst ==
    /\ Cardinality(Invocations("register_discord_bot")) <= 1
    /\ Cardinality(Invocations("register_telegram_bot")) <= 1
    /\ Invocations("register_discord_bot") # {} =>
           /\ discord_token # NoneV
           /\ "register_discord_bot" \in available_tools_dict
    /\ Invocations("register_telegram_bot") # {} =>
           /\ telegram_token # NoneV
           /\ telegram_api_id # NoneV
           /\ telegram_api_hash # NoneV
           /\ "register_telegram_bot" \in available_tools_dict
    /\ \A k \in Invocations("register_discord_bot")
               \cup Invocations("register_telegram_bot") :
           \A f \in FilterAt : k < f
    /\ (WrappedBy("DiscordToolWrapper") \cup WrappedBy("TelegramToolWrapper")) # {} =>
           FilterAt # {}

C31_Witness ==
    /\ apc = "returned"
    /\ Invocations("register_discord_bot") # {}
    /\ Invocations("register_telegram_bot") # {}
    /\ WrappedBy("DiscordToolWrapper") # {}
    /\ WrappedBy("TelegramToolWrapper") # {}


(***************************************************************************)
(* Claims about tool-call fragments, the committed text and rejection.     *)
(***************************************************************************)
\* The chunks that carry tool-call records and nothing else.
ToolOnlyChunks ==
    {c \in Chunks :
        /\ c.kind = "dict"
        /\ c.content = NoContent
        /\ c.output = NoOutput
        /\ c.messages.present
        /\ c.messages.list # <<>>
        /\ \A k \in 1..Len(c.messages.list) : c.messages.list[k].type = "ToolMessage"}

\* C32: the step that consumes a chunk carrying only tool-call records
\* leaves the accumulator and the store unchanged, broadcasts nothing and
\* goes on to the next chunk.
C32_ToolOnlyChunkChangesNothing ==
    [][\A c \in ToolOnlyChunks :
           ReceiveChunk(c) =>
               /\ full_agent_response_content' = full_agent_response_content
               /\ store' = store
               /\ Len(log') = Len(log) + 1
               /\ log'[Len(log')].ev = "chunk"
               /\ pc' = "astream"]_vars

C32_Witness ==
    /\ pc = "astream"
    /\ ToolOnlyChunks # {}
    /\ Len(log) > 2
    /\ log[Len(log)].ev = "chunk"
    /\ log[Len(log)].text = NoText
    /\ log[Len(log) - 1].ev = "llm_stream_chunk"
    /\ full_agent_response_content = log[Len(log) - 1].text
    /\ full_agent_response_content # NoText


\* C33: a turn that ended normally after at least one partial broadcast
\* committed, as its final agent message, the text of its last partial
\* broadcast.
C33_FinalEqualsLastPartial ==
    (response = "200" /\ Partials # <<>>) =>
        /\ store # <<>>
        /\ store[Len(store)].role = "agent"
        /\ store[Len(store)].content = Partials[Len(Partials)].text

C33_Witness ==
    /\ response = "200"
    /\ Len(Partials) >= 2
    /\ store[Len(store)].content = Partials[Len(Partials)].text
    /\ Partials[1].text # Partials[Len(Partials)].text


\* C34: for a session that does not exist or belongs to another user the
\* request, unless it is cancelled while the session is looked up, ends
\* with 404 or 403 respectively, and no message is persisted, the executor
\* is not started and nothing is broadcast.
C34_RejectedRequestHasNoEffect ==
    session \in {"absent", "foreign"} =>
        /\ store = <<>>
        /\ \A k \in 1..Len(log) :
               log[k].ev \notin {"add_message", "astream", "chunk", "llm_stream_chunk"}
        /\ pc \in {"get_session", "done"}
        /\ (pc = "done" /\ response # "cancelled") =>
               response = IF session = "absent" THEN "404" ELSE "403"

C34_Witness ==
    /\ session = "foreign"
    /\ pc = "done"
    /\ response = "403"
    /\ store = <<>>


\* The index in clog of the latest call of shutdown_all_agents by task t.
LastShutdownAll(t) ==
    CHOOSE i \in 1..Len(clog) :
        /\ clog[i] = CEvent("shutdown_all", t)
        /\ \A j \in (i + 1)..Len(clog) : clog[j] # CEvent("shutdown_all", t)

\* C35: whatever the interleaving of shutdown_specific_agent and
\* shutdown_all_agents calls, no client is closed twice, and when a
\* shutdown_all_agents call has returned and nothing was registered since it
\* started, the cache is empty.
C35_ClosedOnceAndCacheEmptied ==
    /\ \A i, j \in 1..Len(clog) :
           (clog[i].ev = "close" /\ clog[j].ev = "close" /\ clog[i].x = clog[j].x)
               => i = j
    /\ \A t \in Tasks :
           (/\ task[t].op = "shutdown_all"
            /\ task[t].pc = "returned"
            /\ \A j \in (LastShutdownAll(t) + 1)..Len(clog) : clog[j].ev # "add")
               => initialized_agents = <<>>

C35_Witness ==
    \E t1, t2 \in Tasks :
        /\ t1 # t2
        /\ task[t1].op = "shutdown_specific" /\ task[t1].pc = "returned"
        /\ task[t2].op = "shutdown_all" /\ task[t2].pc = "returned"
        /\ initialized_agents = <<>>
        /\ \E i, j, k \in 1..Len(clog) :
               /\ i < j /\ j < k
               /\ clog[i] = CEvent("shutdown_all", t2)
               /\ clog[j].ev = "close"
               /\ clog[k] = CEvent("shutdown_specific", t1)
               /\ task[t1].agent_id \in AgentIds
               /\ task[t1].mcp_client = 0
               /\ clients[clog[j].x] = "closed"


\* C36: the retry loop never issues two get_tools calls back to back: between
\* any two consecutive attempts there is a backoff wait, also when the
\* earlier attempt returned an empty list.
C36_AsClaimed ==
    \A i \in 1..(Len(dlog) - 1) :
        ~(dlog[i] = "get_tools" /\ dlog[i + 1] = "get_tools")


\* The calls that hold a browser: they got it and have not released it.
Holders == UNION {holder[b] : b \in Browsers}
Ended(c) == crawl[c].pc \in {"returned", "raised"}
InProgress(c) ==
    crawl[c].pc \in {"new_context", "new_page", "work", "page_close",
                     "context_close", "release_browser"}

\* C37: a crawler operation that has ended, by returning or by raising at
\* any step, no longer holds the browser it acquired.
C37_AsClaimed ==
    \A c \in Crawlers : Ended(c) => crawl[c].id \notin Holders

\* C38: between initialize and close, with releases of acquired browsers
\* only, no browser has two holders, at most pool_size browsers are checked
\* out, and the checked-out browsers and the queued ones are pool_size in
\* all.
C38_PoolAccounting ==
    /\ \A b \in Browsers : Cardinality(holder[b]) <= 1
    /\ Cardinality(Holders) <= pool_size
    /\ Cardinality(Holders) + Len(browsers) = pool_size

C38_Witness ==
    \E c1, c2 \in Crawlers :
        /\ crawl[c1].pc = "returned"
        /\ InProgress(c2)
        /\ crawl[c2].browser = crawl[c1].browser
        /\ holder[crawl[c2].browser] = {crawl[c2].id}
        /\ Cardinality(Holders) = pool_size
        /\ browsers = <<>>
        /\ lock = 0
        /\ \E c3 \in Crawlers : InProgress(c3) /\ crawl[c3].browser # crawl[c2].browser


====
